---- MODULE Spec2Model ----
(***************************************************************************)
(* State-machine model of src/indel.tsx: the localStorage-backed           *)
(* DataManager (users, channels, distributions, withdrawals, settings),    *)
(* the periodic traffic simulation, the operator's registry / settings /   *)
(* distribution / CSV-import handlers and the tenant's withdrawal handler. *)
(*                                                                         *)
(* Money.  The source computes                                             *)
(*     (views / 1000) * globalPricePer1k * (ratio / 100)                   *)
(* in floating point.  The model keeps globalPricePer1k in cents and every *)
(* amount in units of 1/MoneyScale dollar, so that the same product is the *)
(* exact integer  views * price * ratio ; rounding of the floating-point   *)
(* operations is not modelled.                                             *)
(*                                                                         *)
(* Sessions.  One browser page: App holds one logged-in `user` at a time,  *)
(* the interval timer of App ticks in every session state.                 *)
(***************************************************************************)
EXTENDS Integers, Sequences, FiniteSets, TLC

VARIABLES
    users,          \* localStorage nexus_v2_users
    channels,       \* localStorage nexus_v2_channels
    distributions,  \* localStorage nexus_v2_distributions
    withdrawals,    \* localStorage nexus_v2_withdrawals
    settings,       \* localStorage nexus_v2_settings
    user,           \* App state `user`: <<>> (null) or <<the logged-in User>>
    balance,        \* `balance` captured by the last render of SubDashboard
    selectedUsers,  \* recipients of the pending handleDistribute timer
    importStatus,   \* AdminUsers state importStatus
    csvContent,     \* the payload the last processCSV call worked on
    nextId,         \* number of ids generated so far (Date.now()/random ids)
    lastOk,         \* history: tenant whose withdrawal succeeded last, no
                    \* view count, rate or ratio having changed since; else 0
    repriced        \* history: tenants whose rate or ratio changed (or who
                    \* were deleted) while they had a withdrawal

vars == <<users, channels, distributions, withdrawals, settings, user, balance,
          selectedUsers, importStatus, csvContent, nextId, lastOk,
          repriced>>

----------------------------------------------------------------------------
(* Bounds of the model *)

MaxDistributions == 1
MaxWithdrawals == 2
MaxViews == 30
MaxLines == 3
MaxRegistryLines == 2
MaxIds == 2
MaxChannels == 3

(* Units of money per dollar: 1000 views x 100 cents x 100 percent *)
MoneyScale == 1000 * 100 * 100

----------------------------------------------------------------------------
(* Inputs the model draws from *)

(* views: Math.floor(Math.random() * 1000) of a new distribution *)
InitialViews == {0, 15}
(* Math.floor(Math.random() * 50) + 1 of one traffic tick *)
TickIncrements == {15}
(* values typed into the RPM field, in cents per 1000 views *)
PriceChoices == {-100000, 50000, 100000}
(* values typed into a Split Ratio field *)
RatioChoices == {0, 100}
(* the one the registry specification types *)
RegistryRatios == {100}
(* passwords typed into the login form *)
PasswordChoices == {"123456", "pw"}

----------------------------------------------------------------------------
(* Data manager defaults *)

DEFAULT_USERS ==
    << [id |-> 1, username |-> "admin", password |-> "123456", role |-> "admin", ratio |-> 0],
       [id |-> 2, username |-> "test1", password |-> "123456", role |-> "user", ratio |-> 75],
       [id |-> 3, username |-> "test2", password |-> "123456", role |-> "user", ratio |-> 80] >>

DEFAULT_SETTINGS == [globalPricePer1k |-> 3, platformFee |-> 0]

----------------------------------------------------------------------------
(* mutant: the role filter left out *)
NonAdmin_Everyone(us) == us

(* Sequence helpers: Array.prototype.reduce / map / filter / find *)

RECURSIVE SumViews(_)
SumViews(ds) == IF ds = <<>> THEN 0 ELSE Head(ds).views + SumViews(Tail(ds))

RECURSIVE SumAmounts(_)
SumAmounts(ws) == IF ws = <<>> THEN 0 ELSE Head(ws).amount + SumAmounts(Tail(ws))

Range(s) == {s[i] : i \in DOMAIN s}

UserIds(us) == {us[i].id : i \in DOMAIN us}

NonAdmin(us) == SelectSeq(us, LAMBDA u : u.role # "admin")

----------------------------------------------------------------------------
(* Attribution: the arithmetic of SubDashboard and AdminRevenue *)

(* dists.filter(d => d.userId === id).reduce((acc, d) => acc + d.views, 0) *)
totalViews(dists, id) == SumViews(SelectSeq(dists, LAMBDA d : d.userId = id))

(* mutant: revenue priced at the rate in force at start, not the stored one *)
gross_Snapshot(dists, s, id) ==
    totalViews(dists, id) * DEFAULT_SETTINGS.globalPricePer1k * 100

(* AdminRevenue: gross = (views / 1000) * settings.globalPricePer1k *)
gross(dists, s, id) == totalViews(dists, id) * s.globalPricePer1k * 100

(* SubDashboard: revenue = (totalViews / 1000) * price * (user.ratio / 100) *)
revenue(dists, s, u) == totalViews(dists, u.id) * s.globalPricePer1k * u.ratio

(* SubDashboard: withdrawals of the user, amounts summed *)
withdrawn(ws, id) == SumAmounts(SelectSeq(ws, LAMBDA w : w.userId = id))

(* mutant: the clamp at 0 left out *)
MathMax0_NoClamp(x) == x

(* Math.max(0, x) *)
MathMax0(x) == IF x > 0 THEN x ELSE 0

(* SubDashboard: balance = Math.max(0, revenue - withdrawn) *)
SubDashboardBalance(dists, s, ws, u) ==
    MathMax0(revenue(dists, s, u) - withdrawn(ws, u.id))

(* if (balance < 10) return alert('Minimum withdrawal is $10') *)
MinWithdrawal == 10 * MoneyScale

(* The same quantities on the current stored state *)
GrossRevenue(id) == gross(distributions, settings, id)
NetRevenue(u) == revenue(distributions, settings, u)
Withdrawn(id) == withdrawn(withdrawals, id)
AvailableBalance(u) == SubDashboardBalance(distributions, settings, withdrawals, u)

----------------------------------------------------------------------------
(* CSV import.  A payload is the textarea text: a sequence of lines (the
   text between '\n'), a line a sequence of cells (the text between ',').
   A cell is one of the strings below; the string functions the importer
   applies to a cell are given cell by cell. *)

(* String.prototype.trim *)
Trim(cell) ==
    CASE cell = " " -> ""
      [] cell = " alice " -> "alice"
      [] OTHER -> cell

(* String.prototype.toLowerCase *)
ToLowerCase(cell) ==
    CASE cell = "Username" -> "username"
      [] cell = "MyUsername" -> "myusername"
      [] cell = "UC1" -> "uc1"
      [] cell = "UC2" -> "uc2"
      [] cell = "UC3" -> "uc3"
      [] cell = "Alice TV" -> "alice tv"
      [] cell = "Username fans" -> "username fans"
      [] OTHER -> cell

(* lower-case cell text .includes('username') *)
IncludesUsername(cell) == cell \in {"username", "myusername", "username fans"}

(* parseFloat of a ratio cell *)
ParseFloat(cell) ==
    CASE cell = "50" -> 50
      [] cell = "60" -> 60
      [] cell = "150" -> 150
      [] OTHER -> 0

(* cId.startsWith('UC') *)
StartsWithUC(cell) == cell \in {"UC1", "UC2", "UC3"}

(* line.trim() is empty: a line without a comma whose text is white space *)
IsBlank(line) == Len(line) = 1 /\ Trim(line[1]) = ""

(* csvContent.trim().split('\n'): leading and trailing blank lines go;
   the empty text splits into one empty line *)
RECURSIVE DropLeadingBlank(_)
DropLeadingBlank(ls) ==
    IF ls # <<>> /\ IsBlank(Head(ls)) THEN DropLeadingBlank(Tail(ls)) ELSE ls

RECURSIVE DropTrailingBlank(_)
DropTrailingBlank(ls) ==
    IF ls # <<>> /\ IsBlank(ls[Len(ls)])
    THEN DropTrailingBlank(SubSeq(ls, 1, Len(ls) - 1)) ELSE ls

SplitLines(csv) ==
    LET kept == DropTrailingBlank(DropLeadingBlank(csv))
    IN  IF kept = <<>> THEN << <<"">> >> ELSE kept

(* lines[0].toLowerCase().includes('username') ? 1 : 0, as the 1-based
   index of the first line the loop reads *)
StartIdx(lines) ==
    IF \E c \in DOMAIN lines[1] : IncludesUsername(ToLowerCase(lines[1][c]))
    THEN 2 ELSE 1

(* parts.length < 5 *)
TooFewParts(line) == Len(line) < 5

(* `u_${Date.now()}_${random}`: the n-th id generated, distinct from the
   default ids and from every id generated before *)
FreshId(n) == Len(DEFAULT_USERS) + n

(* mutant: only the users created earlier in the batch are searched *)
FindUser_BatchOnly(currentUsers, newUsers, username) ==
    SelectSeq(newUsers, LAMBDA u : u.username = username)

(* currentUsers.find(...) || newUsers.find(...) by username *)
FindUser(currentUsers, newUsers, username) ==
    SelectSeq(currentUsers \o newUsers, LAMBDA u : u.username = username)

(* mutant: the created User takes the operator's role *)
NewUser_Operator(id, line) ==
    [id |-> id, username |-> Trim(line[1]), password |-> Trim(line[2]),
     role |-> "admin", ratio |-> ParseFloat(Trim(line[3]))]

(* The User a row creates *)
NewUser(id, line) ==
    [id |-> id, username |-> Trim(line[1]), password |-> Trim(line[2]),
     role |-> "user", ratio |-> ParseFloat(Trim(line[3]))]

(* The Channel a row creates *)
NewChannel(userId, line) ==
    [userId |-> userId,
     platform |-> IF StartsWithUC(Trim(line[5])) THEN "youtube" ELSE "tiktok",
     identifier |-> Trim(line[5]), name |-> Trim(line[4])]

(* The for loop of processCSV from line i on: error is the number of the
   line that threw (0: none), ids the number of ids generated *)
RECURSIVE ParseRows(_, _, _, _, _, _)
ParseRows(lines, i, currentUsers, newUsers, newChannels, ids) ==
    IF i > Len(lines)
    THEN [error |-> 0, newUsers |-> newUsers, newChannels |-> newChannels, ids |-> ids]
    ELSE IF IsBlank(lines[i])
    THEN ParseRows(lines, i + 1, currentUsers, newUsers, newChannels, ids)
    ELSE IF TooFewParts(lines[i])
    THEN [error |-> i, newUsers |-> newUsers, newChannels |-> newChannels, ids |-> ids]
    ELSE LET found == FindUser(currentUsers, newUsers, Trim(lines[i][1]))
             usr == IF found # <<>> THEN found[1]
                    ELSE NewUser(FreshId(ids + 1), lines[i])
         IN  ParseRows(lines, i + 1, currentUsers,
                       IF found # <<>> THEN newUsers ELSE Append(newUsers, usr),
                       Append(newChannels, NewChannel(usr.id, lines[i])),
                       IF found # <<>> THEN ids ELSE ids + 1)

(* The try block of processCSV up to the two writes *)
ParseCsv(csv, currentUsers, ids) ==
    LET lines == SplitLines(csv)
    IN  ParseRows(lines, StartIdx(lines), currentUsers, <<>>, <<>>, ids)

NoStatus == [type |-> "none", line |-> 0, users |-> 0, channels |-> 0]
ErrorStatus(line) == [type |-> "error", line |-> line, users |-> 0, channels |-> 0]
SuccessStatus(nu, nc) == [type |-> "success", line |-> 0, users |-> nu, channels |-> nc]

(* localStorage.setItem may throw (quota): which write of the commit fails *)
StorageFaults == {"none", "setUsers", "setChannels"}

----------------------------------------------------------------------------
(* Sessions *)

IsAdminSession == user # <<>> /\ user[1].role = "admin"
IsTenantSession == user # <<>> /\ user[1].role # "admin"

(* users.find(u => u.username === username && u.password === password) *)
FindLogin(username, password) ==
    SelectSeq(users, LAMBDA u : u.username = username /\ u.password = password)

Init ==
    /\ users = DEFAULT_USERS
    /\ channels = <<>>
    /\ distributions = <<>>
    /\ withdrawals = <<>>
    /\ settings = DEFAULT_SETTINGS
    /\ user = <<>>
    /\ balance = 0
    /\ selectedUsers = <<>>
    /\ importStatus = NoStatus
    /\ csvContent = <<>>
    /\ nextId = 0
    /\ lastOk = 0
    /\ repriced = {}

(* LoginScreen.handleLogin + App.handleLogin: the found user becomes the
   session; a tenant lands on sub-dashboard, which renders SubDashboard *)
Login(username, password) ==
    /\ user = <<>>
    /\ LET found == FindLogin(username, password) IN
         /\ found # <<>>
         /\ user' = <<found[1]>>
         /\ balance' = IF found[1].role = "admin" THEN 0
                       ELSE SubDashboardBalance(distributions, settings, withdrawals, found[1])
    /\ UNCHANGED <<users, channels, distributions, withdrawals, settings,
                   selectedUsers, importStatus, csvContent, nextId,
                   lastOk, repriced>>

(* App.handleLogout *)
Logout ==
    /\ user # <<>>
    /\ user' = <<>>
    /\ balance' = 0
    /\ UNCHANGED <<users, channels, distributions, withdrawals, settings,
                   selectedUsers, importStatus, csvContent, nextId,
                   lastOk, repriced>>

(* The tenant leaves sub-dashboard and comes back: SubDashboard renders
   again, from the stored state and the session's user *)
RenderSubDashboard ==
    /\ IsTenantSession
    /\ balance' = SubDashboardBalance(distributions, settings, withdrawals, user[1])
    /\ UNCHANGED <<users, channels, distributions, withdrawals, settings, user,
                   selectedUsers, importStatus, csvContent, nextId,
                   lastOk, repriced>>

----------------------------------------------------------------------------
(* Traffic simulation *)

(* the view counts a stored ledger starts from: none yet, just under the
   2000 and just under the 1,000,000 views of the documented examples *)
StoredViews == {0, 1985, 999985}

(* ticks are followed while a count is at most MaxViews above a count a
   ledger starts from *)
WithinViewBound(views) == \E base \in StoredViews : views - base \in 0..MaxViews

(* mutant: the count is replaced by the random draw
   Math.floor(Math.random() * 50) instead of being raised by it *)
IncreaseViews_Redraw(views, inc) == inc - 1

(* mutant: the increment is taken off the count instead of being added *)
IncreaseViews_Subtract(views, inc) == views - inc

(* d.views + Math.floor(Math.random() * 50) + 1 *)
IncreaseViews(views, inc) == views + inc

(* DataManager.simulateTraffic, run by App's setInterval: every
   distribution is either left alone or gets an increment *)
simulateTraffic ==
    /\ Len(distributions) # 0
    /\ \E inc \in [DOMAIN distributions -> {0} \cup TickIncrements] :
         /\ \A i \in DOMAIN distributions :
                WithinViewBound(IncreaseViews(distributions[i].views, inc[i]))
         /\ distributions' =
                [i \in DOMAIN distributions |->
                    IF inc[i] = 0 THEN distributions[i]
                    ELSE [distributions[i] EXCEPT
                            !.views = IncreaseViews(distributions[i].views, inc[i])]]
    /\ lastOk' = IF distributions' = distributions THEN lastOk ELSE 0
    /\ UNCHANGED <<users, channels, withdrawals, settings, user, balance,
                   selectedUsers, importStatus, csvContent, nextId,
                   repriced>>

----------------------------------------------------------------------------
(* Withdrawal *)

(* The Withdrawal record handleWithdraw builds; date (and the id made of
   Date.now()) is the time of the request, counted in appends *)
NewWithdrawal(u, amount) ==
    [userId |-> u.id, amount |-> amount, date |-> Len(withdrawals) + 1,
     status |-> "pending"]

(* SubEarnings: db.getWithdrawals().filter(w => w.userId === user.id),
   rendered row by row in that order *)
listWithdrawals(id) == SelectSeq(withdrawals, LAMBDA w : w.userId = id)

(* SubDashboard.handleWithdraw: acts on the `balance` of the render it was
   created in; on success the page reloads, which ends the session and
   drops the page's timers *)
handleWithdraw ==
    /\ IsTenantSession
    /\ IF balance < MinWithdrawal
       THEN UNCHANGED <<withdrawals, user, balance, selectedUsers, lastOk>>
       ELSE /\ Len(withdrawals) < MaxWithdrawals
            /\ withdrawals' = Append(withdrawals, NewWithdrawal(user[1], balance))
            /\ user' = <<>>
            /\ balance' = 0
            /\ selectedUsers' = <<>>
            /\ lastOk' = user[1].id
    /\ UNCHANGED <<users, channels, distributions, settings, importStatus,
                   csvContent, nextId, repriced>>

----------------------------------------------------------------------------
(* Operator: registry, import, settings, distribution *)

(* AdminUsers.processCSV on textarea text csv *)
processCSV(csv, fault) ==
    /\ IsAdminSession
    /\ LET r == ParseCsv(csv, users, nextId) IN
         /\ r.ids <= MaxIds
         /\ Len(channels) + Len(r.newChannels) <= MaxChannels
         /\ csvContent' = csv
         /\ IF r.error # 0
            THEN /\ importStatus' = ErrorStatus(r.error)
                 /\ UNCHANGED <<users, channels, nextId>>
            ELSE /\ nextId' = r.ids
                 /\ users' = IF fault = "setUsers" THEN users ELSE users \o r.newUsers
                 /\ channels' = IF fault = "none" THEN channels \o r.newChannels
                                ELSE channels
                 /\ importStatus' =
                        IF fault = "none"
                        THEN SuccessStatus(Len(r.newUsers), Len(r.newChannels))
                        ELSE ErrorStatus(0)
    /\ UNCHANGED <<distributions, withdrawals, settings, user, balance,
                   selectedUsers, lastOk, repriced>>

(* ids of the rows of the user table / recipient list: the non-admin users *)
TenantIds == UserIds(NonAdmin(users))

(* The per-tenant listings of the operator pages *)
AdminRevenueRows == NonAdmin(users)
AdminUsersRows == NonAdmin(users)
DistributionRecipients == NonAdmin(users)
ActiveTenantCount == Len(NonAdmin(users))

(* AdminDashboard: totalViews over db.getDistributions(), and
   totalRevenue = (totalViews / 1000) * settings.globalPricePer1k *)
AdminDashboardTotalViews == SumViews(distributions)
AdminDashboardTotalRevenue ==
    AdminDashboardTotalViews * settings.globalPricePer1k * 100

(* tenants that have a withdrawal on record *)
HaveWithdrawn == {id \in TenantIds : Withdrawn(id) # 0}

(* mutant: the deletion also removes the tenant's withdrawals from the
   ledger *)
handleDelete_Cascade(id) ==
    /\ IsAdminSession
    /\ id \in TenantIds
    /\ users' = SelectSeq(users, LAMBDA u : u.id # id)
    /\ withdrawals' = SelectSeq(withdrawals, LAMBDA w : w.userId # id)
    /\ UNCHANGED <<channels, distributions, settings, user, balance,
                   selectedUsers, importStatus, csvContent, nextId,
                   lastOk, repriced>>

(* handleDelete and handleRatioChange rewrite the registry from the
   component's users state, which is the stored registry whenever the last
   import did not fail between its two writes (no specification below
   combines a failing write with an edit or a deletion) *)
(* The body of handleDelete, confirm() answered yes *)
DeleteWrite(id) ==
    /\ id \in TenantIds
    /\ users' = SelectSeq(users, LAMBDA u : u.id # id)
    /\ UNCHANGED <<channels, distributions, withdrawals, settings, user, balance,
                   selectedUsers, importStatus, csvContent, nextId,
                   lastOk, repriced>>

(* AdminUsers.handleDelete, clicked in this page's operator session *)
handleDelete(id) == IsAdminSession /\ DeleteWrite(id)

(* The body of handleRatioChange *)
RatioWrite(id, newRatio) ==
    /\ id \in TenantIds
    /\ users' = [i \in DOMAIN users |->
                    IF users[i].id = id THEN [users[i] EXCEPT !.ratio = newRatio]
                    ELSE users[i]]
    /\ lastOk' = IF users' # users /\ lastOk = id THEN 0 ELSE lastOk
    /\ repriced' = IF users' # users THEN repriced \cup ({id} \cap HaveWithdrawn)
                   ELSE repriced
    /\ UNCHANGED <<channels, distributions, withdrawals, settings, user, balance,
                   selectedUsers, importStatus, csvContent, nextId>>

(* AdminUsers.handleRatioChange, typed in this page's operator session *)
handleRatioChange(id, newRatio) == IsAdminSession /\ RatioWrite(id, newRatio)

(* The body of save after the RPM field was set to price *)
SettingsWrite(price) ==
    /\ settings' = [settings EXCEPT !.globalPricePer1k = price]
    /\ lastOk' = IF settings' # settings THEN 0 ELSE lastOk
    /\ repriced' = IF settings' # settings THEN repriced \cup HaveWithdrawn
                   ELSE repriced
    /\ UNCHANGED <<users, channels, distributions, withdrawals, user, balance,
                   selectedUsers, importStatus, csvContent, nextId>>

(* AdminSettings.save, clicked in this page's operator session *)
save(price) == IsAdminSession /\ SettingsWrite(price)

(* the recipient lists that can be ticked: non-empty, in table order *)
RecipientLists ==
    LET ids == [i \in DOMAIN NonAdmin(users) |-> NonAdmin(users)[i].id]
    IN  {SelectSeq(ids, LAMBDA id : id \in S) : S \in (SUBSET TenantIds) \ {{}}}

(* AdminDistribution.handleDistribute: starts the 1500 ms timer; the
   button is disabled until the timer has run *)
handleDistribute(selected) ==
    /\ IsAdminSession
    /\ selectedUsers = <<>>
    /\ selected # <<>>
    /\ Len(distributions) + Len(selected) <= MaxDistributions
    /\ selectedUsers' = selected
    /\ UNCHANGED <<users, channels, distributions, withdrawals, settings, user,
                   balance, importStatus, csvContent, nextId, lastOk,
                   repriced>>

(* The Distribution handleDistribute's timer builds for one recipient *)
NewDistribution(uid, views) == [userId |-> uid, status |-> "success", views |-> views]

(* The timer callback of handleDistribute; it runs in whatever session the
   page is in by then *)
distributeTimeout ==
    /\ selectedUsers # <<>>
    /\ \E v \in [DOMAIN selectedUsers -> InitialViews] :
         distributions' = distributions \o
             [i \in DOMAIN selectedUsers |-> NewDistribution(selectedUsers[i], v[i])]
    /\ selectedUsers' = <<>>
    /\ lastOk' = 0
    /\ UNCHANGED <<users, channels, withdrawals, settings, user, balance, importStatus, csvContent, nextId, repriced>>

----------------------------------------------------------------------------
(* Import payloads *)

HeaderLine == <<"username", "password", "ratio", "channel_name", "channel_id">>
AliceLine == <<"alice", "pw", "50", "Alice TV", "UC1">>
AliceTokLine == <<" alice ", "pw", "60", "alice.tok", "tt1">>
Test1Line == <<"test1", "pw", "150", "T1", "UC2">>
MyUsernameLine == <<"MyUsername", "pw", "50", "mine", "UC3">>
ShortLine == <<"bob", "pw">>
ShortUsernameLine == <<"MyUsername", "pw">>
LabelCellLine == <<"alice", "pw", "50", "Username fans", "tt2">>
BlankLine == <<" ">>

Lines == {HeaderLine, AliceLine, AliceTokLine, Test1Line, MyUsernameLine,
          ShortLine, ShortUsernameLine, LabelCellLine, BlankLine}

SeqsUpTo(S, n) == UNION {[1..k -> S] : k \in 0..n}

(* every textarea text of at most MaxLines lines *)
Payloads == SeqsUpTo(Lines, MaxLines)

(* the texts the registry specification imports *)
RegistryPayloads ==
    SeqsUpTo({AliceLine, Test1Line}, MaxRegistryLines) \ {<<>>}

----------------------------------------------------------------------------
(* Specifications *)

LoginAny ==
    \E i \in DOMAIN users, password \in PasswordChoices :
        Login(users[i].username, password)

(* The page without the CSV import: sessions, traffic, withdrawals, rate,
   ratios, deletions, distributions *)
Next ==
    \/ LoginAny
    \/ Logout
    \/ RenderSubDashboard
    \/ handleWithdraw
    \/ simulateTraffic
    \/ \E price \in PriceChoices : save(price)
    \/ \E id \in TenantIds, r \in RatioChoices : handleRatioChange(id, r)
    \/ \E selected \in RecipientLists : handleDistribute(selected)
    \/ distributeTimeout
    \/ \E id \in TenantIds : handleDelete(id)

Spec == Init /\ [][Next]_vars

(* The distribution ledgers localStorage may hold when the page loads: a
   Distribution has a userId, a status 'success' | 'failed' and views *)
StoredDistributions ==
    {[userId |-> u, status |-> st, views |-> v] :
        u \in {DEFAULT_USERS[2].id}, st \in {"success", "failed"}, v \in StoredViews}

StoredLedgers == SeqsUpTo(StoredDistributions, MaxDistributions)

(* The page loaded on a stored ledger, default registry and settings *)
InitLedger ==
    /\ distributions \in StoredLedgers
    /\ users = DEFAULT_USERS
    /\ channels = <<>>
    /\ withdrawals = <<>>
    /\ settings = DEFAULT_SETTINGS
    /\ user = <<>>
    /\ balance = 0
    /\ selectedUsers = <<>>
    /\ importStatus = NoStatus
    /\ csvContent = <<>>
    /\ nextId = 0
    /\ lastOk = 0
    /\ repriced = {}

(* The tenant pages on a stored ledger: sessions, traffic, withdrawals *)
NextLedger ==
    \/ LoginAny
    \/ Logout
    \/ RenderSubDashboard
    \/ handleWithdraw
    \/ simulateTraffic

SpecLedger == InitLedger /\ [][NextLedger]_vars

(* the texts the operator imports next to the ledger operations: a row for
   test1 and a malformed row *)
LedgerPayloads == {<<Test1Line>>, <<ShortLine>>}

(* Every operation of the page: Next and one import *)
NextOps ==
    \/ Next
    \/ /\ importStatus = NoStatus
       /\ \E csv \in LedgerPayloads : processCSV(csv, "none")

SpecOps == Init /\ [][NextOps]_vars

(* The page next to a second page on the same localStorage in which the
   operator is logged in: the second page's handlers write the registry and
   the settings whatever session this page is in *)
NextTabs ==
    \/ Next
    \/ \E id \in TenantIds, r \in RatioChoices : RatioWrite(id, r)
    \/ \E id \in TenantIds : DeleteWrite(id)
    \/ \E price \in PriceChoices : SettingsWrite(price)

SpecTabs == Init /\ [][NextTabs]_vars

(* The page with its traffic interval running: setInterval fires
   simulateTraffic every 5 s for as long as the page is open *)
SpecLive == Spec /\ WF_vars(simulateTraffic)

(* The importer applied once to every payload *)
NextImport ==
    \/ Login("admin", "123456")
    \/ /\ importStatus = NoStatus
       /\ \E csv \in Payloads, fault \in StorageFaults : processCSV(csv, fault)

SpecImport == Init /\ [][NextImport]_vars

(* The operator's registry page: imports, ratio edits, deletions *)
NextRegistry ==
    \/ Login("admin", "123456")
    \/ \E csv \in RegistryPayloads : processCSV(csv, "none")
    \/ \E id \in TenantIds : handleDelete(id)
    \/ \E id \in TenantIds, r \in RegistryRatios : handleRatioChange(id, r)

SpecRegistry == Init /\ [][NextRegistry]_vars

----------------------------------------------------------------------------
(* Claims about the ledger, checked under Spec *)

(* C1: in every reachable state the available balance
   max(0, netRevenue - withdrawn) of every registered user is >= 0, and so
   is the balance a rendered dashboard holds, also right after a withdrawal
   was appended *)
C1_BalanceNeverNegative ==
    /\ \A i \in DOMAIN users : AvailableBalance(users[i]) >= 0
    /\ balance >= 0

(* C1 witness: a withdrawal was just appended (nothing changed since) and
   the tenant's balance is 0 *)
C1_Witness ==
    \E i \in DOMAIN users :
        /\ lastOk = users[i].id
        /\ Withdrawn(users[i].id) > 0
        /\ AvailableBalance(users[i]) = 0

(* C2: when a tenant's withdrawal has succeeded and no view count, rate or
   ratio has changed since, a further request of that tenant appends
   nothing *)
C2_SecondRequestRejected ==
    [][(IsTenantSession /\ lastOk = user[1].id) => withdrawals' = withdrawals]_vars

(* C3: no double-spend: for a tenant whose rate and ratio were not changed
   while withdrawals of theirs were on record, the withdrawals never sum to
   more than the tenant's net revenue.  Violated once a negative price is
   stored (see save): net revenue is then below the empty sum 0 *)
C3_NoDoubleSpend ==
    \A i \in DOMAIN users :
        users[i].id \notin repriced => Withdrawn(users[i].id) <= NetRevenue(users[i])

(* C4: a withdrawal request acts on the available balance of the stored
   state at the call: below the minimum it appends nothing, otherwise it
   appends one pending withdrawal of exactly that balance *)
C4_ActsOnBalanceAtCall ==
    [][handleWithdraw =>
        IF AvailableBalance(user[1]) < MinWithdrawal
        THEN withdrawals' = withdrawals
        ELSE withdrawals' =
                Append(withdrawals, NewWithdrawal(user[1], AvailableBalance(user[1])))]_vars

(* C5: every withdrawal that is appended has an amount > 0 that is at most
   the tenant's available balance in the stored state it is appended to *)
C5_AppendedWithinBalance ==
    [][Len(withdrawals') > Len(withdrawals) =>
        LET w == withdrawals'[Len(withdrawals')] IN
            /\ w.amount > 0
            /\ \E i \in DOMAIN users :
                 /\ users[i].id = w.userId
                 /\ w.amount <= AvailableBalance(users[i])]_vars

(* C5 witness: traffic ran between the render and the request: right after
   the append the tenant still has balance left *)
C5_Witness ==
    \E i \in DOMAIN users :
        /\ lastOk = users[i].id
        /\ AvailableBalance(users[i]) > 0

(* C6: while the rate config is unchanged, no step lowers the gross
   revenue of a registered user *)
C6_GrossNonDecreasing ==
    [][settings' = settings =>
        \A id \in UserIds(users) :
            gross(distributions', settings', id) >= gross(distributions, settings, id)]_vars

(* what a save of a different price leaves alone, and the new gross *)
SaveFrame ==
    /\ distributions' = distributions
    /\ withdrawals' = withdrawals
    /\ users' = users
    /\ \A id \in TenantIds :
         gross(distributions', settings', id) =
             totalViews(distributions, id) * settings'.globalPricePer1k * 100

HasDistribution(id) == \E i \in DOMAIN distributions : distributions[i].userId = id

(* C7 as stated: a save of a different price leaves the ledgers and the
   registry unchanged and changes the gross revenue of every tenant that
   has a distribution *)
C7_Original ==
    [][settings'.globalPricePer1k # settings.globalPricePer1k =>
        /\ SaveFrame
        /\ \A id \in TenantIds :
             HasDistribution(id) =>
                gross(distributions', settings', id) # gross(distributions, settings, id)]_vars

(* C7 amended: ... changes the gross revenue of every tenant whose
   distributions have a view total other than 0 *)
C7_Retroactive ==
    [][settings'.globalPricePer1k # settings.globalPricePer1k =>
        /\ SaveFrame
        /\ \A id \in TenantIds :
             totalViews(distributions, id) # 0 =>
                gross(distributions', settings', id) # gross(distributions, settings, id)]_vars

(* C7 witness: the price was changed while tenants had revenue withdrawn
   (registry as at start, so it was the price that changed) *)
C7_Witness == repriced # {} /\ users = DEFAULT_USERS

----------------------------------------------------------------------------
(* Claims about the batch import, checked under SpecImport and SpecRegistry *)

(* a cell that case-insensitively is the column label *)
IsLabel(cell) == ToLowerCase(Trim(cell)) = "username"

(* The numbers of the data rows of a payload: the lines that are not blank
   and are not a first row whose first cell is the label.  Lines are
   numbered as the importer numbers them, in the trimmed text *)
DataRowNumbers(csv) ==
    LET lines == SplitLines(csv) IN
        {i \in DOMAIN lines :
            /\ ~IsBlank(lines[i])
            /\ ~(i = 1 /\ IsLabel(lines[1][1]))}

MalformedRowNumbers(csv) ==
    {i \in DataRowNumbers(csv) : Len(SplitLines(csv)[i]) < 5}

(* the rows of a payload that name the tenant *)
RowsNaming(csv, name) ==
    {i \in DataRowNumbers(csv) : Trim(SplitLines(csv)[i][1]) = name}

UsersNamed(us, name) == {i \in DOMAIN us : us[i].username = name}

(* a step of the importer: csvContent' is the payload it processed *)
ImportStep == importStatus' # importStatus \/ channels' # channels

(* C8: an import of a payload in which some non-blank data row has fewer
   than 5 fields ends in the error that carries the line number of such a
   row, and leaves the tenant registry and the channel registry as they
   were *)
C8_MalformedRowAborts ==
    [][(ImportStep /\ MalformedRowNumbers(csvContent') # {}) =>
        /\ importStatus' \in {ErrorStatus(n) : n \in MalformedRowNumbers(csvContent')}
        /\ users' = users
        /\ channels' = channels]_vars

(* C9: a successful import of a well-formed payload in which k >= 2 rows
   name the same tenant that is not in the registry adds exactly one tenant
   of that name and exactly k channels carrying that tenant's id *)
C9_SameNameOneTenant ==
    [][(/\ ImportStep
        /\ importStatus'.type = "success"
        /\ MalformedRowNumbers(csvContent') = {}) =>
        \A n \in DataRowNumbers(csvContent') :
            LET name == Trim(SplitLines(csvContent')[n][1])
                k == Cardinality(RowsNaming(csvContent', name))
            IN  (k >= 2 /\ UsersNamed(users, name) = {}) =>
                    /\ Cardinality(UsersNamed(users', name)) = 1
                    /\ \A t \in UsersNamed(users', name) :
                         Cardinality({j \in DOMAIN channels' :
                                        channels'[j].userId = users'[t].id}) = k]_vars

NoDuplicateNames(us) ==
    \A i, j \in DOMAIN us : us[i].username = us[j].username => i = j

(* C10: no two tenants of the registry ever have the same name, and in an
   import every row that names a persisted tenant creates no tenant and
   binds its channel to the persisted tenant's id *)
C10_NoDuplicateTenants ==
    [][/\ NoDuplicateNames(users)
       /\ NoDuplicateNames(users')
       /\ (ImportStep /\ DataRowNumbers(csvContent') = DOMAIN csvContent') =>
            \A n \in DOMAIN csvContent', i \in DOMAIN users :
                users[i].username = Trim(csvContent'[n][1]) =>
                    /\ UsersNamed(users', users[i].username) = {i}
                    /\ users'[i] = users[i]
                    /\ channels'[Len(channels) + n].userId = users[i].id]_vars

(* C10 witness: a one-row import of alice, already persisted with the
   edited ratio, created no tenant and one channel *)
C10_Witness ==
    /\ csvContent = <<AliceLine>>
    /\ importStatus = SuccessStatus(0, 1)
    /\ \E i \in DOMAIN users :
         /\ users[i].username = "alice"
         /\ users[i].ratio = 100
         /\ channels[Len(channels)].userId = users[i].id

(* C11: the importer skips the first row as a header exactly when the
   row's first cell case-insensitively is the column label; any other
   non-blank first row is read as a data row, so a successful import adds
   one channel per data row *)
C11_HeaderIffLabel ==
    [][ImportStep =>
        LET lines == SplitLines(csvContent') IN
            /\ StartIdx(lines) = 2 <=> IsLabel(lines[1][1])
            /\ importStatus'.type = "success" =>
                 Len(channels') - Len(channels) =
                     Cardinality(DataRowNumbers(csvContent'))]_vars

----------------------------------------------------------------------------
(* Claims about attribution, checked under SpecLedger, Spec, SpecRegistry *)

SuccessOnly(dists) == SelectSeq(dists, LAMBDA d : d.status = "success")

(* C12: the view total, gross revenue, net revenue and available balance
   of every tenant are computed over the tenant's successful distributions
   only; a failed distribution contributes nothing *)
C12_FailedExcluded ==
    \A i \in DOMAIN users :
        LET u == users[i]
            good == SuccessOnly(distributions)
        IN  /\ totalViews(distributions, u.id) = totalViews(good, u.id)
            /\ GrossRevenue(u.id) = gross(good, settings, u.id)
            /\ NetRevenue(u) = revenue(good, settings, u)
            /\ AvailableBalance(u) = SubDashboardBalance(good, settings, withdrawals, u)

Listings == {AdminRevenueRows, AdminUsersRows, DistributionRecipients}

(* C13: every per-tenant listing (revenue table and export, user table,
   distribution recipient list, active-tenant count) has exactly one row for
   each non-operator tenant of the registry and none for an operator *)
C13_OperatorExcluded ==
    /\ \A rows \in Listings :
         /\ \A r \in DOMAIN rows : rows[r].role # "admin"
         /\ \A i \in DOMAIN users :
              users[i].role # "admin" =>
                  Cardinality({r \in DOMAIN rows : rows[r] = users[i]}) = 1
    /\ ActiveTenantCount = Cardinality({i \in DOMAIN users : users[i].role # "admin"})
    /\ \A sel \in RecipientLists : \A k \in DOMAIN sel :
         \E i \in DOMAIN users : users[i].id = sel[k] /\ users[i].role # "admin"

(* C13 witness: the registry holds the operator, an imported tenant with an
   edited ratio, and a default tenant was deleted *)
C13_Witness ==
    /\ \E i \in DOMAIN users : users[i].role = "admin"
    /\ \E i \in DOMAIN users : users[i].username = "alice" /\ users[i].ratio = 100
    /\ \A i \in DOMAIN users : users[i].username # "test2"

(* the tenant has exactly one distribution, successful, with these views *)
OneSuccessfulDistribution(id, views) ==
    \E d \in Range(distributions) :
        /\ SelectSeq(distributions, LAMBDA x : x.userId = id) = <<d>>
        /\ d.status = "success"
        /\ d.views = views

(* C14: at price 0.03 per 1000 views, for a tenant of ratio 75 without
   withdrawals: with one successful distribution of 2000 views net revenue
   is 0.045 and a withdrawal request appends nothing; with 1,000,000 views
   gross is 30, net is 22.5, a request appends a withdrawal of 22.5 and
   leaves balance 0; and after that withdrawal a further request appends
   nothing *)
C14_WorkedExample ==
    [][\A i \in DOMAIN users :
        LET T == users[i]
            requested == handleWithdraw /\ user[1].id = T.id
        IN  (T.ratio = 75 /\ settings.globalPricePer1k = 3) =>
              /\ (Withdrawn(T.id) = 0 /\ OneSuccessfulDistribution(T.id, 2000)) =>
                    /\ NetRevenue(T) = (45 * MoneyScale) \div 1000
                    /\ requested => withdrawals' = withdrawals
              /\ (Withdrawn(T.id) = 0 /\ OneSuccessfulDistribution(T.id, 1000000)) =>
                    /\ GrossRevenue(T.id) = 30 * MoneyScale
                    /\ NetRevenue(T) = 22 * MoneyScale + MoneyScale \div 2
                    /\ requested =>
                         /\ withdrawals' =
                              Append(withdrawals,
                                     NewWithdrawal(T, 22 * MoneyScale + MoneyScale \div 2))
                         /\ SubDashboardBalance(distributions', settings',
                                                withdrawals', T) = 0
              /\ (/\ Withdrawn(T.id) = 22 * MoneyScale + MoneyScale \div 2
                  /\ OneSuccessfulDistribution(T.id, 1000000)
                  /\ requested) => withdrawals' = withdrawals]_vars

(* C15: a rate config with a price below 0 or a platform fee outside
   [0, 100] is never stored: the stored config always has price >= 0 and
   0 <= fee <= 100 *)
C15_ConfigInRange ==
    /\ settings.globalPricePer1k >= 0
    /\ settings.platformFee \in 0..100

(* C16: the withdrawal history of a tenant lists exactly the tenant's
   withdrawals, most recent first: of two listed withdrawals the one
   requested later comes earlier *)
C16_MostRecentFirst ==
    \A id \in UserIds(users) :
        LET list == listWithdrawals(id) IN
            /\ \A a \in DOMAIN list : list[a].userId = id
            /\ \A w \in Range(withdrawals) : w.userId = id => w \in Range(list)
            /\ \A a, b \in DOMAIN list : a < b => list[a].date > list[b].date

(* a step that rewrites records of the distribution ledger in place, which
   only the traffic tick does *)
TickStep == Len(distributions') = Len(distributions) /\ distributions' # distributions

(* C17: a traffic tick keeps the distribution records and all their fields
   but views, keeps tenants, channels, withdrawals and the rate config, and
   lowers no view count; every view count is >= 0 in every state *)
C17_TickFrame ==
    [][/\ \A i \in DOMAIN distributions : distributions[i].views >= 0
       /\ \A i \in DOMAIN distributions' : distributions'[i].views >= 0
       /\ TickStep =>
            /\ users' = users
            /\ channels' = channels
            /\ withdrawals' = withdrawals
            /\ settings' = settings
            /\ \A i \in DOMAIN distributions :
                 /\ distributions'[i].userId = distributions[i].userId
                 /\ distributions'[i].status = distributions[i].status
                 /\ distributions'[i].views >= distributions[i].views]_vars

(* C17 witness: ticks have raised a view count above every initial count,
   with a withdrawal on record *)
C17_Witness ==
    /\ withdrawals # <<>>
    /\ \E i \in DOMAIN distributions :
         \A v \in InitialViews : distributions[i].views > v

(* the distributions that reference a tenant of the registry *)
LiveDistributions == SelectSeq(distributions, LAMBDA d : d.userId \in UserIds(users))

(* the platform-wide totals count no distribution of a deleted tenant *)
TotalsExcludeOrphans ==
    /\ AdminDashboardTotalViews = SumViews(LiveDistributions)
    /\ AdminDashboardTotalRevenue =
           SumViews(LiveDistributions) * settings.globalPricePer1k * 100

(* C18: deleting a tenant leaves the distribution ledger and the
   withdrawal ledger as they were, and afterwards the aggregates, also the
   platform-wide total views and total revenue, leave out the records that
   reference the deleted tenant *)
C18_DeletionOrphans ==
    [][/\ Len(users') < Len(users) =>
            /\ distributions' = distributions
            /\ withdrawals' = withdrawals
       /\ TotalsExcludeOrphans']_vars

----------------------------------------------------------------------------
(* Claims about the ledgers' integrity, checked under SpecOps, SpecImport *)

(* C19: the withdrawal ledger is append-only: over every step (withdrawal
   request, tick, import, ratio edit, deletion, rate change, distribution)
   the ledger before is a prefix of the ledger after, record by record, and
   a rejected request leaves it as it was *)
C19_AppendOnly ==
    [][/\ Len(withdrawals') >= Len(withdrawals)
       /\ SubSeq(withdrawals', 1, Len(withdrawals)) = withdrawals
       /\ (handleWithdraw /\ balance < MinWithdrawal) =>
             withdrawals' = withdrawals]_vars

(* C19 witness: two withdrawals are on record, an import has run and the
   tenant who withdrew has been deleted *)
C19_Witness ==
    /\ Len(withdrawals) = 2
    /\ importStatus # NoStatus
    /\ \E w \in Range(withdrawals) : w.userId \notin UserIds(users)

(* C20: an import commits atomically: after an import step, also one whose
   second storage write failed, every tenant the import persisted has its
   channels in the channel registry, and every channel it persisted
   references a tenant of the registry *)
C20_AtomicCommit ==
    [][ImportStep =>
        /\ \A i \in DOMAIN users' \ DOMAIN users :
             \E j \in DOMAIN channels' : channels'[j].userId = users'[i].id
        /\ \A j \in DOMAIN channels' \ DOMAIN channels :
             \E i \in DOMAIN users' : users'[i].id = channels'[j].userId]_vars

----------------------------------------------------------------------------
(* Claims about the operator and about sessions *)

Operators == {i \in DOMAIN users : users[i].role = "admin"}

(* C21: the registry always holds exactly one tenant of role operator, and
   no distribution and no withdrawal references the operator's id *)
C21_OneOperator ==
    /\ Cardinality(Operators) = 1
    /\ \A i \in Operators :
         /\ \A d \in Range(distributions) : d.userId # users[i].id
         /\ \A w \in Range(withdrawals) : w.userId # users[i].id

(* C21 witness: distributions and withdrawals are on record, a tenant was
   deleted and a tenant was created by an import *)
C21_Witness ==
    /\ distributions # <<>>
    /\ withdrawals # <<>>
    /\ importStatus = SuccessStatus(1, 1)
    /\ \E i \in DOMAIN users : users[i].id = FreshId(1)
    /\ DEFAULT_USERS[2].id \notin UserIds(users)

(* C22: once a lowered price or ratio puts a tenant's net revenue below
   what the tenant has withdrawn, the tenant's available balance is 0, and
   no withdrawal of a tenant is appended while the tenant's net revenue less
   the withdrawn total is below the minimum *)
C22_LoweredConfigRejects ==
    [][/\ \A i \in DOMAIN users :
            NetRevenue(users[i]) < Withdrawn(users[i].id) =>
                AvailableBalance(users[i]) = 0
       /\ Len(withdrawals') > Len(withdrawals) =>
            \A i \in DOMAIN users :
                users[i].id = withdrawals'[Len(withdrawals')].userId =>
                    NetRevenue(users[i]) - Withdrawn(users[i].id) >= MinWithdrawal]_vars

(* C23: a withdrawal is validated and sized with the tenant record the
   registry holds at the request: the tenant is in the registry, with the
   ratio the request computes with *)
C23_RegistryAtRequest ==
    [][(handleWithdraw /\ withdrawals' # withdrawals) =>
        \E i \in DOMAIN users :
            /\ users[i].id = user[1].id
            /\ users[i].ratio = user[1].ratio]_vars

(* one more tick on a distribution of the tenant, still followed, lifts the
   tenant's balance to the minimum *)
TickSuffices(u) ==
    \E i \in DOMAIN distributions, inc \in TickIncrements :
        /\ distributions[i].userId = u.id
        /\ WithinViewBound(IncreaseViews(distributions[i].views, inc))
        /\ (totalViews(distributions, u.id) + inc) * settings.globalPricePer1k * u.ratio
               - Withdrawn(u.id) >= MinWithdrawal

(* a withdrawal request of the tenant made in this state is accepted: from
   the tenant's open dashboard it acts on the rendered balance, otherwise
   the tenant logs in first and the dashboard renders from the stored state *)
RequestAccepted(u) ==
    IF IsTenantSession /\ user[1].id = u.id
    THEN balance >= MinWithdrawal
    ELSE AvailableBalance(u) >= MinWithdrawal

(* the tenant has just withdrawn, has a positive ratio and a distribution,
   the price is positive and rate and ratio are as they were at the
   tenant's withdrawals *)
JustWithdrew(id) ==
    /\ lastOk = id
    /\ id \notin repriced
    /\ settings.globalPricePer1k > 0
    /\ \E i \in DOMAIN users :
         users[i].id = id /\ users[i].ratio > 0 /\ TickSuffices(users[i])

(* the tenant can withdraw again, or the config or the tenant's ratio was
   changed or the tenant deleted in the meantime *)
CanWithdrawAgain(id) ==
    \/ id \in repriced
    \/ id \notin UserIds(users)
    \/ \E i \in DOMAIN users :
         /\ users[i].id = id
         /\ AvailableBalance(users[i]) >= MinWithdrawal
         /\ RequestAccepted(users[i])

(* C24: while the traffic interval keeps running, with a positive price and
   ratio and the config unchanged, every successful withdrawal of a tenant
   is eventually followed by a state in which the tenant's available balance
   is at least the minimum and a new request of the tenant is accepted *)
C24_WithdrawAgain ==
    \A id \in UserIds(NonAdmin(DEFAULT_USERS)) :
        JustWithdrew(id) ~> CanWithdrawAgain(id)

====
